---- MODULE Spec2Model ----
(***************************************************************************)
(* TaskBoard backend (src/taskboard_backend/app/main.py): the task         *)
(* lifecycle, the escrow ledger, the request handlers that mutate them,    *)
(* the listing, the outbound notification and the event bus.               *)
(*                                                                         *)
(* The stores are the module-level dictionaries USERS, TASKS, BALANCES and *)
(* the counter TASK_COUNTER; the event bus is SUBSCRIBERS, SUB_ID_SEQ and  *)
(* the subscribers' queues.  Each request is served by a thread of the     *)
(* Flask server; the handlers take no lock, so a handler is modelled as a  *)
(* sequence of steps, one per source statement that reads or writes a      *)
(* store (pc[t] is the line the thread is about to execute).               *)
(*                                                                         *)
(*   SeqSpec   requests run one at a time;                                 *)
(*   Spec      requests may overlap a request in flight;                   *)
(*   BusSpec   event streams are opened, read and dropped while tasks are  *)
(*             created one request at a time;                              *)
(*   StreamSpec  as BusSpec, with streams opened at any time;              *)
(*   ListSpec  list_tasks on the stores left by a few creates;             *)
(*   FrameSpec  SeqSpec with list_tasks and the profile handlers.          *)
(*                                                                         *)
(* Timestamps ("ts", "created_at"), the texts of titles and descriptions,  *)
(* result texts and display names do not influence any store update and    *)
(* are left out of the records.                                            *)
(***************************************************************************)
EXTENDS Integers, Sequences, FiniteSets, TLC

\* ---------------------------------------------------------------- bounds
\* Request inputs are drawn from these small sets.  SeqThreads serves the
\* requests that run one at a time, issued by SeqUsers; the other thread
\* serves the request that overlaps one in flight, issued by any of Users.
Threads == {1, 2}
SeqThreads == {1}
Users == {1, 2, 3}
SeqUsers == {1, 2}
Prices == {700}
Amounts == {300}
Categories == {"design"}
\* create_task is admitted while TASK_COUNTER <= MaxTasks.
MaxTasks == 1
\* balance_add and balance_withdraw are admitted while the histories hold
\* fewer than MaxLedgerRequests "add" and "withdraw_stub" entries.
MaxLedgerRequests == 1
\* The number of requests admitted while another one is in flight.
MaxOverlaps == 1
\* The event bus is explored with requests that run one at a time, issued by
\* BusUsers: create_task with a price of BusPrices, admitted while
\* TASK_COUNTER <= MaxBusTasks (two events are published per task, so that
\* the queues of 100 items fill up); at most two event streams
\* are opened (their ids are StreamIds), and at most MaxDelivered items are written to clients whose
\* connection is open.
BusUsers == {1}
BusPrices == {1}
MaxBusTasks == 51
StreamIds == {1, 2}
MaxDelivered == 1
\* Late subscribers are explored with at most MaxStreamTasks tasks and at most
\* MaxStreamed items written to open connections.
MaxStreamTasks == 1
MaxStreamed == 2
\* list_tasks is explored on the stores left by up to MaxListed creates with
\* prices of ListPrices and categories of ListCategories; its price bounds
\* are drawn from ListBounds.
MaxListed == 3
ListPrices == {5, 10, 50}
ListCategories == {"design", "code"}
ListBounds == {10, 50}

\* ------------------------------------------------------- program constants
None == 0
StartingGrant == 1000
CustomerRating == 5

\* ------------------------------------------------------------------ state
VARIABLES USERS, TASKS, BALANCES, TASK_COUNTER, pc, loc, pre, minted, overlaps,
          SUBSCRIBERS, SUB_ID_SEQ, queue, gen, delivered, published

\* The event bus: SUBSCRIBERS is the set of registered subscriber ids (the
\* keys of the dictionary; the queue stored under sid is queue[sid]),
\* gen[sid] is the position of the subscriber's stream generator and the
\* state of its connection, delivered counts the items written to clients,
\* published counts the events _publish has taken a subscriber snapshot for.
bus == <<SUBSCRIBERS, SUB_ID_SEQ, queue, gen, delivered, published>>

vars == <<USERS, TASKS, BALANCES, TASK_COUNTER, pc, loc, pre, minted, overlaps, bus>>

EmptyDict == [k \in {} |-> 0]

Range(f) == {f[x] : x \in DOMAIN f}

\* The sum of the values of a dict whose keys are positive integers.
Total(f) ==
    LET keys == DOMAIN f
        hi == IF keys = {} THEN 0 ELSE CHOOSE k \in keys : \A j \in keys : j <= k
        n[i \in 0..hi] == IF i = 0 THEN 0 ELSE (IF i \in keys THEN f[i] ELSE 0) + n[i - 1]
    IN  n[hi]

NewProfile == [created_tasks |-> 0, finished_tasks |-> 0]

NewBalance(amount) == [balance |-> amount, history |-> <<>>]

Entry(type, amount, task_id) == [type |-> type, amount |-> amount, task_id |-> task_id]

NoTask == [id |-> 0, price |-> 0, category |-> "", customer_id |-> 0, customer_rating |-> 0,
           status |-> "none", performer_id |-> None]

\* An event handed to _publish: `event` is its kind, the other fields its data.
\* `no` is not part of the payload: it records the event's place in the order
\* of publication (0 until _publish has taken its snapshot); no handler reads it.
Event(event, action, task, user_id, balance) ==
    [event |-> event, action |-> action, task |-> task, user_id |-> user_id, balance |-> balance,
     no |-> 0]

NoEvent == Event("", "", NoTask, 0, 0)

\* The query arguments of list_tasks.  An optional argument is a sequence of
\* length at most one: <<>> when the request does not carry it.
NoArgs == [category |-> <<>>, price_min |-> <<>>, price_max |-> <<>>, sort |-> <<>>]

\* The body of a create_task request: `title` tells whether title and
\* description are both present, `category` is "" when it is missing.
Body(title, category) == [title |-> title, category |-> category]

NoBody == Body(FALSE, "")

\* The locals of a request handler.  b_uid/orph/ob model the reference `b`
\* (`pb`, `cb`) a handler holds into BALANCES: while orph is FALSE it denotes
\* the record stored under b_uid; once another thread has replaced that
\* record (auth_telegram, line 257) it denotes the old, now unreachable,
\* record ob.
NoLocals == [op |-> "idle", uid |-> 0, task_id |-> 0, price |-> 0, amount |-> 0,
             title |-> FALSE, category |-> "", task |-> NoTask, performer_id |-> None,
             b_uid |-> 0, orph |-> FALSE, ob |-> NewBalance(0),
             ret |-> "", qs |-> <<>>, payload |-> NoEvent, events |-> <<>>,
             args |-> NoArgs, items |-> <<>>, body |-> EmptyDict,
             resp |-> 0, at |-> NoTask]

\* pre[t] records the stores as they were when thread t's request arrived
\* (B: BALANCES, T: TASKS, U: USERS, N: TASK_COUNTER); the handlers never read it.
NoSnapshot == [B |-> EmptyDict, T |-> EmptyDict, U |-> EmptyDict, N |-> 0]

Init ==
    /\ USERS = EmptyDict
    /\ TASKS = EmptyDict
    /\ BALANCES = EmptyDict
    /\ TASK_COUNTER = 1
    /\ pc = [t \in Threads |-> "idle"]
    /\ loc = [t \in Threads |-> NoLocals]
    /\ pre = [t \in Threads |-> NoSnapshot]
    /\ minted = 0
    /\ overlaps = 0
    /\ SUBSCRIBERS = {}
    /\ SUB_ID_SEQ = 1
    /\ queue = EmptyDict
    /\ gen = EmptyDict
    /\ delivered = 0
    /\ published = 0

\* ------------------------------------------------------------ dictionaries
\* dict.setdefault(k, v): insert v under k unless k is present.
SetDefault(d, k, v) == IF k \in DOMAIN d THEN d ELSE (k :> v) @@ d

\* d[k] = v: insert or replace.
Store(d, k, v) == (k :> v) @@ d

\* prof["created_tasks"] = int(prof.get("created_tasks", 0)) + 1
BumpCreated(prof) == [prof EXCEPT !.created_tasks = @ + 1]

\* pprof["finished_tasks"] = int(pprof.get("finished_tasks", 0)) + 1
BumpFinished(prof) == [prof EXCEPT !.finished_tasks = @ + 1]

\* ------------------------------------------------------ the reference `b`
\* The record the handler's balance reference denotes.
BRef(t) == IF loc[t].orph THEN loc[t].ob ELSE BALANCES[loc[t].b_uid]

\* A write through the reference, together with the move to the next line.
BWrite(t, rec, next) ==
    /\ pc' = [pc EXCEPT ![t] = next]
    /\ IF loc[t].orph
          THEN /\ loc' = [loc EXCEPT ![t].ob = rec]
               /\ UNCHANGED BALANCES
          ELSE /\ BALANCES' = [BALANCES EXCEPT ![loc[t].b_uid] = rec]
               /\ UNCHANGED loc

\* b = BALANCES.setdefault(uid, {"balance": 0, "history": []})
BSetDefault(t, uid, next) ==
    /\ BALANCES' = SetDefault(BALANCES, uid, NewBalance(0))
    /\ loc' = [loc EXCEPT ![t].b_uid = uid]
    /\ pc' = [pc EXCEPT ![t] = next]

\* ------------------------------------------------------------ control flow
Goto(t, next) == pc' = [pc EXCEPT ![t] = next]

\* The handler returns `code`; the response stays visible until Return.
Respond(t, code) ==
    /\ pc' = [pc EXCEPT ![t] = "done"]
    /\ loc' = [loc EXCEPT ![t].resp = code]

AllIdle == \A t \in Threads : pc[t] = "idle"

\* Overlapping requests are explored from the stores in which user 1 holds the
\* only account and no deposit or withdrawal has been recorded.
RaceReady ==
    /\ DOMAIN BALANCES = {1}
    /\ \A e \in Range(BALANCES[1].history) : e.type \notin {"add", "withdraw_stub"}

\* How a request is admitted: "seq" while no other request is in flight (and
\* none has overlapped before), "overlap" while another one is in flight.
\* "bus" is "seq" with the inputs that fill the subscribers' queues.
Admissions == {"seq", "overlap"}

\* Thread t is free to take a request admitted as adm.
CanEnter(t, adm) ==
    /\ pc[t] = "idle"
    /\ IF adm = "overlap"
          THEN t \notin SeqThreads /\ ~AllIdle /\ overlaps < MaxOverlaps /\ RaceReady
          ELSE t \in SeqThreads /\ AllIdle /\ overlaps = 0

Admitted(t, adm, uid) ==
    /\ CanEnter(t, adm)
    /\ adm = "seq" => uid \in SeqUsers \cup {0}
    /\ adm \in {"bus", "stream"} => uid \in BusUsers

\* The inputs of create_task by admission.
TaskLimit(adm) ==
    CASE adm = "bus" -> MaxBusTasks
      [] adm = "stream" -> MaxStreamTasks
      [] OTHER -> MaxTasks

CreatePrices(adm) == IF adm \in {"bus", "stream"} THEN BusPrices ELSE Prices

\* The stores as a request finds them.
Arrival == [B |-> BALANCES, T |-> TASKS, U |-> USERS, N |-> TASK_COUNTER]

\* A request arrives on an idle thread: token and body are parsed into locals.
Enter(t, adm, op, uid, task_id, price, amount, body, next) ==
    /\ Admitted(t, adm, uid)
    /\ overlaps' = IF adm = "overlap" THEN overlaps + 1 ELSE overlaps
    /\ pc' = [pc EXCEPT ![t] = next]
    /\ loc' = [loc EXCEPT ![t] = [NoLocals EXCEPT !.op = op, !.uid = uid, !.task_id = task_id,
                                                   !.price = price, !.amount = amount,
                                                   !.title = body.title,
                                                   !.category = body.category]]
    /\ pre' = [pre EXCEPT ![t] = Arrival]

\* The response has been sent; the thread is free again.
Return(t) ==
    /\ pc[t] = "done"
    /\ pc' = [pc EXCEPT ![t] = "idle"]
    /\ loc' = [loc EXCEPT ![t] = NoLocals]
    /\ pre' = [pre EXCEPT ![t] = NoSnapshot]
    /\ UNCHANGED <<USERS, TASKS, BALANCES, TASK_COUNTER, minted, overlaps, bus>>

\* ------------------------------------------------- _send_telegram_message
\* The ways the Bot API call of line 161 ends: the request is answered, it
\* fails, or it runs into its timeout.  Lines 163-165 swallow every failure.
NotifyOutcomes == {"sent", "failed", "timed_out"}

\* The handler calls _send_telegram_message and resumes at `next`.  Lines
\* 146-150: the Bot API is called only when SEND_NOTIFICATIONS and
\* TELEGRAM_BOT_TOKEN are set (`configured`); otherwise the call returns at once.
Notify(t, next) ==
    /\ \E configured \in BOOLEAN :
          pc' = [pc EXCEPT ![t] = IF configured THEN "urlopen161" ELSE next]
    /\ loc' = [loc EXCEPT ![t].ret = next]
    /\ UNCHANGED <<USERS, TASKS, BALANCES, TASK_COUNTER, pre, minted, overlaps, bus>>

\* lines 161-165: the handler's thread is inside urlopen(req, timeout=5)
\* until the call ends one way or the other; then the handler resumes.
SendTelegramMessage(t) ==
    /\ pc[t] = "urlopen161"
    /\ \E outcome \in NotifyOutcomes : Goto(t, loc[t].ret)
    /\ UNCHANGED <<USERS, TASKS, BALANCES, TASK_COUNTER, loc, pre, minted, overlaps, bus>>

\* ---------------------------------------------------------------- _publish
\* line 54: Queue(maxsize=100)
QueueMaxSize == 100

\* Variant of QueueFull: the queue takes one item more than its maxsize.
QueueFullLate(q) == Len(q) > QueueMaxSize

\* Queue.full()
QueueFull(q) == Len(q) >= QueueMaxSize

\* lines 46-49: q.put_nowait(payload); the Full of a full queue is swallowed.
PutNowait(q, item) == IF QueueFull(q) THEN q ELSE Append(q, item)

\* The elements of a set of subscriber ids in ascending order: the order of
\* list(SUBSCRIBERS.values()), a dictionary keeping its keys as inserted.
RECURSIVE Ascending(_)
Ascending(S) ==
    IF S = {} THEN <<>>
    ELSE LET m == CHOOSE x \in S : \A y \in S : x <= y
         IN  <<m>> \o Ascending(S \ {m})

\* The handler, its locals being l, calls _publish(event, data) and resumes
\* at `next` once the call is over.  `events` records the events the request
\* has handed to _publish so far; the handlers never read it.
PublishCall(t, l, payload, next) ==
    /\ loc' = [loc EXCEPT ![t] = [l EXCEPT !.payload = payload, !.ret = next,
                                            !.events = Append(@, payload)]]
    /\ Goto(t, "publish42")
    /\ UNCHANGED <<USERS, TASKS, BALANCES, TASK_COUNTER, pre, minted, overlaps, bus>>

\* lines 42-44: with SUBSCRIBERS_LOCK: qs = list(SUBSCRIBERS.values()).  Every
\* access to SUBSCRIBERS is made under the lock and none of them waits while
\* holding it, so each locked block is one step.
PublishSnapshot(t) ==
    /\ pc[t] = "publish42"
    /\ loc' = [loc EXCEPT ![t].qs = Ascending(SUBSCRIBERS), ![t].payload.no = published + 1]
    /\ published' = published + 1
    /\ Goto(t, IF SUBSCRIBERS = {} THEN loc[t].ret ELSE "publish47")
    /\ UNCHANGED <<USERS, TASKS, BALANCES, TASK_COUNTER, pre, minted, overlaps,
                   SUBSCRIBERS, SUB_ID_SEQ, queue, gen, delivered>>

\* lines 45-49: one round of the loop, q.put_nowait(payload) on the next queue
\* of the snapshot.  A queue whose generator has finished is referenced by
\* nothing but the snapshot: a put on it has no effect on the state.
PublishPut(t) ==
    /\ pc[t] = "publish47"
    /\ LET sid == Head(loc[t].qs)
       IN  queue' = IF sid \in DOMAIN queue
                       THEN [queue EXCEPT ![sid] = PutNowait(@, loc[t].payload)]
                       ELSE queue
    /\ loc' = [loc EXCEPT ![t].qs = Tail(@)]
    /\ Goto(t, IF Len(loc[t].qs) = 1 THEN loc[t].ret ELSE "publish47")
    /\ UNCHANGED <<USERS, TASKS, BALANCES, TASK_COUNTER, pre, minted, overlaps,
                   SUBSCRIBERS, SUB_ID_SEQ, gen, delivered, published>>

\* -------------------------------------------------------------- sse_events
\* A subscriber is the request thread that serves GET /events together with
\* the generator it returns.  gen[sid].at is the generator's position:
\* "created" (the generator object exists, its body has not run), "line69"
\* (waiting in q.get) or "closed"; gen[sid].conn is the client's connection,
\* "open" or "dropped".  Two fields are records of the past that nothing in
\* the program reads: `first` is the value of published when the subscriber
\* registered, `out` the items written to the client so far, pings left out.
Generator(at, conn, first) == [at |-> at, conn |-> conn, first |-> first, out |-> <<>>]

\* The dictionary d without key k: d.pop(k, None).
Pop(d, k) == [x \in DOMAIN d \ {k} |-> d[x]]

\* lines 54-58: q = Queue(maxsize=100); with SUBSCRIBERS_LOCK: sid = SUB_ID_SEQ;
\* SUB_ID_SEQ += 1; SUBSCRIBERS[sid] = q.  Lines 60-87 build the generator
\* and hand it to the server without running it.  Under admission "bus" the
\* streams are opened before the first task is created.
SseEvents(adm) ==
    /\ SUB_ID_SEQ \in StreamIds
    /\ adm = "bus" => TASK_COUNTER = 1
    /\ SUBSCRIBERS' = SUBSCRIBERS \cup {SUB_ID_SEQ}
    /\ queue' = Store(queue, SUB_ID_SEQ, <<>>)
    /\ gen' = Store(gen, SUB_ID_SEQ, Generator("created", "open", published))
    /\ SUB_ID_SEQ' = SUB_ID_SEQ + 1
    /\ UNCHANGED <<USERS, TASKS, BALANCES, TASK_COUNTER, pc, loc, pre, minted, overlaps, delivered, published>>

\* The client's connection goes away; nothing in the process is told.
Disconnect(sid) ==
    /\ sid \in DOMAIN gen
    /\ gen[sid].at # "closed"
    /\ gen[sid].conn = "open"
    /\ gen' = [gen EXCEPT ![sid].conn = "dropped"]
    /\ UNCHANGED <<USERS, TASKS, BALANCES, TASK_COUNTER, pc, loc, pre, minted, overlaps,
                   SUBSCRIBERS, SUB_ID_SEQ, queue, delivered, published>>

\* lines 77-79: the server fails to write to the dropped connection and
\* closes the generator, whose finally block runs SUBSCRIBERS.pop(sid, None).
\* The queue is then referenced by no one but publish snapshots.
GenClose(sid) ==
    /\ SUBSCRIBERS' = SUBSCRIBERS \ {sid}
    /\ gen' = [gen EXCEPT ![sid].at = "closed"]
    /\ queue' = Pop(queue, sid)

\* The generator yields an item and the server writes it to the client: on
\* an open connection the generator goes on to line 69, on a dropped one it
\* is closed.  `written` is what the step adds to the record of items written.
GenYield(sid, written) ==
    IF gen[sid].conn = "dropped"
       THEN GenClose(sid)
       ELSE /\ gen' = [gen EXCEPT ![sid].at = "line69", ![sid].out = @ \o written]
            /\ UNCHANGED <<SUBSCRIBERS, queue>>

\* line 63: _sse_format("hello", {"ok": True})
Hello == Event("hello", "", NoTask, 0, 0)

\* Variant of QueueGet: the item is read and left on the queue.
QueueGetKeeps(q) == q

\* line 69: q.get removes the first item of the queue.
QueueGet(q) == Tail(q)

\* The items a stream may write to open connections, by admission.
DeliveryLimit(adm) == IF adm = "stream" THEN MaxStreamed ELSE MaxDelivered

\* line 63: the server starts the generator, which yields "hello".
GenHello(sid) ==
    /\ sid \in DOMAIN gen
    /\ gen[sid].at = "created"
    /\ GenYield(sid, <<Hello>>)
    /\ UNCHANGED <<USERS, TASKS, BALANCES, TASK_COUNTER, pc, loc, pre, minted, overlaps,
                   SUB_ID_SEQ, delivered, published>>

\* lines 69-70: item = q.get(timeout=10); yield item
GenGet(sid, adm) ==
    /\ sid \in DOMAIN gen
    /\ gen[sid].at = "line69"
    /\ queue[sid] # <<>>
    /\ gen[sid].conn = "open" => delivered < DeliveryLimit(adm)
    /\ IF gen[sid].conn = "dropped"
          THEN GenClose(sid) /\ UNCHANGED delivered
          ELSE /\ queue' = [queue EXCEPT ![sid] = QueueGet(@)]
               /\ gen' = [gen EXCEPT ![sid].out = Append(@, Head(queue[sid]))]
               /\ delivered' = delivered + 1
               /\ UNCHANGED SUBSCRIBERS
    /\ UNCHANGED <<USERS, TASKS, BALANCES, TASK_COUNTER, pc, loc, pre, minted, overlaps,
                   SUB_ID_SEQ, published>>

\* lines 71-76: q.get times out on the empty queue; after 20 seconds without
\* a ping the generator yields one.
GenPing(sid) ==
    /\ sid \in DOMAIN gen
    /\ gen[sid].at = "line69"
    /\ queue[sid] = <<>>
    /\ GenYield(sid, <<>>)
    /\ UNCHANGED <<USERS, TASKS, BALANCES, TASK_COUNTER, pc, loc, pre, minted, overlaps,
                   SUB_ID_SEQ, delivered, published>>

\* ---------------------------------------------------------- auth_telegram
AuthEnter(t, adm) ==
    /\ \E uid \in Users : Enter(t, adm, "auth", uid, 0, 0, 0, NoBody, "auth247")
    /\ UNCHANGED <<USERS, TASKS, BALANCES, TASK_COUNTER, minted, bus>>

\* line 247: if user_id not in USERS
AuthCheckUser(t) ==
    /\ pc[t] = "auth247"
    /\ Goto(t, IF loc[t].uid \notin DOMAIN USERS THEN "auth248" ELSE "auth256")
    /\ UNCHANGED <<USERS, TASKS, BALANCES, TASK_COUNTER, loc, pre, minted, overlaps, bus>>

\* lines 248-255: USERS[user_id] = {"profile": {...}}
AuthSetUser(t) ==
    /\ pc[t] = "auth248"
    /\ USERS' = Store(USERS, loc[t].uid, NewProfile)
    /\ Goto(t, "auth256")
    /\ UNCHANGED <<TASKS, BALANCES, TASK_COUNTER, loc, pre, minted, overlaps, bus>>

\* The variant that grants on every authentication.
AuthGrantsAlways(uid, balances) == TRUE

\* line 256: user_id not in BALANCES
AuthGrants(uid, balances) == uid \notin DOMAIN balances

\* line 256: if user_id not in BALANCES
AuthCheckBalance(t) ==
    /\ pc[t] = "auth256"
    /\ IF AuthGrants(loc[t].uid, BALANCES)
          THEN Goto(t, "auth257") /\ UNCHANGED loc
          ELSE Respond(t, 200)
    /\ UNCHANGED <<USERS, TASKS, BALANCES, TASK_COUNTER, pre, minted, overlaps, bus>>

\* A handler whose reference denoted the record stored under uid keeps the
\* old record when the entry is replaced.
Orphaned(s, uid) ==
    IF loc[s].b_uid = uid /\ ~loc[s].orph /\ uid \in DOMAIN BALANCES
       THEN [loc[s] EXCEPT !.orph = TRUE, !.ob = BALANCES[uid]]
       ELSE loc[s]

\* line 257: BALANCES[user_id] = {"balance": 1000, "history": []}
AuthSetBalance(t) ==
    /\ pc[t] = "auth257"
    /\ BALANCES' = Store(BALANCES, loc[t].uid, NewBalance(StartingGrant))
    /\ minted' = minted + StartingGrant
    /\ pc' = [pc EXCEPT ![t] = "done"]
    /\ loc' = [s \in Threads |->
                 IF s = t THEN [loc[t] EXCEPT !.resp = 200] ELSE Orphaned(s, loc[t].uid)]
    /\ UNCHANGED <<USERS, TASKS, TASK_COUNTER, pre, overlaps, bus>>

\* --------------------------------------------------------------- get_task
GetTaskEnter(t, adm) ==
    /\ \E task_id \in 1..MaxTasks : Enter(t, adm, "get_task", 0, task_id, 0, 0, NoBody, "get287")
    /\ UNCHANGED <<USERS, TASKS, BALANCES, TASK_COUNTER, minted, bus>>

\* lines 287-290: t = TASKS.get(task_id); 404 or jsonify(_augment_task_names(t))
GetTask(t) ==
    /\ pc[t] = "get287"
    /\ pc' = [pc EXCEPT ![t] = "done"]
    /\ loc' = IF loc[t].task_id \in DOMAIN TASKS
                 THEN [loc EXCEPT ![t].at = TASKS[loc[t].task_id], ![t].resp = 200]
                 ELSE [loc EXCEPT ![t].resp = 404]
    /\ UNCHANGED <<USERS, TASKS, BALANCES, TASK_COUNTER, pre, minted, overlaps, bus>>

\* -------------------------------------------------------------- list_tasks
\* An optional query argument drawn from S.
Opt(S) == {<<>>} \cup {<<x>> : x \in S}

\* line 268: list(TASKS.values()), the tasks in the order they were inserted
\* (create_task inserts them under increasing keys).
Values(d) == LET keys == Ascending(DOMAIN d) IN [i \in 1..Len(keys) |-> d[keys[i]]]

\* line 270: t.get("category") == category
CategoryIs(task, category) == task.category = category

\* Variant of PriceAtLeast: the lower bound is exclusive.
PriceAbove(task, price_min) == task.price > price_min

\* line 272: int(t.get("price", 0)) >= price_min
PriceAtLeast(task, price_min) == task.price >= price_min

\* line 274: int(t.get("price", 0)) <= price_max
PriceAtMost(task, price_max) == task.price <= price_max

\* One argument's filter (lines 269-274): applied when the request carries it.
FilterBy(items, arg, field) ==
    IF arg = <<>> THEN items
    ELSE SelectSeq(items, LAMBDA task :
            IF field = "category" THEN CategoryIs(task, arg[1])
            ELSE IF field = "price_min" THEN PriceAtLeast(task, arg[1])
            ELSE PriceAtMost(task, arg[1]))

\* items.sort(key=lambda x: x.get(field, 0), reverse=True): a stable sort, the
\* items of equal key keep their order.  Insert places `task` behind the
\* items already sorted whose key is not smaller.
RECURSIVE Insert(_, _, _)
Insert(sorted, task, field) ==
    IF sorted = <<>> THEN <<task>>
    ELSE IF Head(sorted)[field] >= task[field]
            THEN <<Head(sorted)>> \o Insert(Tail(sorted), task, field)
            ELSE <<task>> \o sorted

RECURSIVE SortReverse(_, _)
SortReverse(items, field) ==
    IF items = <<>> THEN <<>>
    ELSE Insert(SortReverse(SubSeq(items, 1, Len(items) - 1), field), items[Len(items)], field)

\* lines 275-280: the sort key by the `sort` argument
SortBy(items, sort) ==
    IF sort = <<"new">> THEN SortReverse(items, "id")
    ELSE IF sort = <<"price">> THEN SortReverse(items, "price")
    ELSE IF sort = <<"rating">> THEN SortReverse(items, "customer_rating")
    ELSE items

\* lines 268-280
ListItems(tasks, args) ==
    SortBy(FilterBy(FilterBy(FilterBy(Values(tasks), args.category, "category"),
                             args.price_min, "price_min"),
                    args.price_max, "price_max"),
           args.sort)

\* The query arguments by admission: every combination, or (admission "frame",
\* list_tasks among the other handlers) none and a sort by price.
ListArgs(adm) ==
    IF adm = "frame"
       THEN {NoArgs, [NoArgs EXCEPT !.sort = <<"price">>]}
       ELSE [category : Opt(ListCategories), price_min : Opt(ListBounds),
             price_max : Opt(ListBounds), sort : Opt({"new", "price", "rating"})]

\* lines 264-267: the query arguments
ListTasksEnter(t, adm) ==
    /\ CanEnter(t, adm)
    /\ \E args \in ListArgs(adm) :
          loc' = [loc EXCEPT ![t] = [NoLocals EXCEPT !.op = "list", !.args = args]]
    /\ pc' = [pc EXCEPT ![t] = "list268"]
    /\ pre' = [pre EXCEPT ![t] = Arrival]
    /\ overlaps' = IF adm = "overlap" THEN overlaps + 1 ELSE overlaps
    /\ UNCHANGED <<USERS, TASKS, BALANCES, TASK_COUNTER, minted, bus>>

\* lines 268-282: the tasks are read once (line 268), filtered, sorted and returned
ListTasks(t) ==
    /\ pc[t] = "list268"
    /\ pc' = [pc EXCEPT ![t] = "done"]
    /\ loc' = [loc EXCEPT ![t].items = ListItems(TASKS, loc[t].args), ![t].resp = 200]
    /\ UNCHANGED <<USERS, TASKS, BALANCES, TASK_COUNTER, pre, minted, overlaps, bus>>

\* ------------------------------------------------------------ create_task
\* line 307: if not title or not description or not category or price < 1
CreateValid(body, price) == body.title /\ body.category # "" /\ ~(price < 1)

\* lines 295-308: token, body, validation
CreateEnter(t, adm) ==
    /\ CanEnter(t, adm)
    /\ TASK_COUNTER <= TaskLimit(adm)
    /\ \E uid \in Users, price \in CreatePrices(adm) \cup {0}, title \in BOOLEAN,
          category \in Categories \cup {""} :
          /\ Enter(t, adm, "create", uid, 0, price, 0, Body(title, category),
                   IF CreateValid(Body(title, category), price) THEN "create310" ELSE "create308")
    /\ UNCHANGED <<USERS, TASKS, BALANCES, TASK_COUNTER, minted, bus>>

\* line 308: return 400 "Invalid payload"
CreateInvalid(t) ==
    /\ pc[t] = "create308"
    /\ Respond(t, 400)
    /\ UNCHANGED <<USERS, TASKS, BALANCES, TASK_COUNTER, pre, minted, overlaps, bus>>

\* line 310: b = BALANCES.setdefault(user_id, ...)
CreateGetBalance(t) ==
    /\ pc[t] = "create310"
    /\ BSetDefault(t, loc[t].uid, "create311")
    /\ UNCHANGED <<USERS, TASKS, TASK_COUNTER, pre, minted, overlaps, bus>>

\* Variant of CreateSufficient: the funds are not checked.
CreateSufficientAlways(balance, price) == TRUE

\* lines 311-312: if b["balance"] < price: return 400 "Insufficient balance"
CreateSufficient(balance, price) == ~(balance < price)

CreateCheckFunds(t) ==
    /\ pc[t] = "create311"
    /\ IF CreateSufficient(BRef(t).balance, loc[t].price)
          THEN Goto(t, "create313") /\ UNCHANGED loc
          ELSE Respond(t, 400)
    /\ UNCHANGED <<USERS, TASKS, BALANCES, TASK_COUNTER, pre, minted, overlaps, bus>>

\* line 313: b["balance"] -= price
CreateDebit(t) ==
    /\ pc[t] = "create313"
    /\ BWrite(t, [BRef(t) EXCEPT !.balance = @ - loc[t].price], "create314")
    /\ UNCHANGED <<USERS, TASKS, TASK_COUNTER, pre, minted, overlaps, bus>>

\* line 314: b["history"].append({"type": "freeze", ..., "task_id": TASK_COUNTER})
CreateFreeze(t) ==
    /\ pc[t] = "create314"
    /\ BWrite(t, [BRef(t) EXCEPT !.history = Append(@, Entry("freeze", loc[t].price, TASK_COUNTER))],
              "create315")
    /\ UNCHANGED <<USERS, TASKS, TASK_COUNTER, pre, minted, overlaps, bus>>

\* lines 315-326: task = {"id": TASK_COUNTER, ..., "status": "free", "performer_id": None}
CreateBuild(t) ==
    /\ pc[t] = "create315"
    /\ loc' = [loc EXCEPT ![t].task = [id |-> TASK_COUNTER, price |-> loc[t].price,
                                        category |-> loc[t].category,
                                        customer_id |-> loc[t].uid,
                                        customer_rating |-> CustomerRating,
                                        status |-> "free", performer_id |-> None]]
    /\ Goto(t, "create327")
    /\ UNCHANGED <<USERS, TASKS, BALANCES, TASK_COUNTER, pre, minted, overlaps, bus>>

\* line 327: TASKS[TASK_COUNTER] = task
CreateStore(t) ==
    /\ pc[t] = "create327"
    /\ TASKS' = Store(TASKS, TASK_COUNTER, loc[t].task)
    /\ Goto(t, "create330")
    /\ UNCHANGED <<USERS, BALANCES, TASK_COUNTER, loc, pre, minted, overlaps, bus>>

\* lines 329-334: USERS.setdefault(user_id, ...); prof["created_tasks"] += 1
CreateCount(t) ==
    /\ pc[t] = "create330"
    /\ LET us == SetDefault(USERS, loc[t].uid, NewProfile)
       IN  USERS' = [us EXCEPT ![loc[t].uid] = BumpCreated(@)]
    /\ Goto(t, "create335")
    /\ UNCHANGED <<TASKS, BALANCES, TASK_COUNTER, loc, pre, minted, overlaps, bus>>

\* line 335: TASK_COUNTER += 1
CreateAdvance(t) ==
    /\ pc[t] = "create335"
    /\ TASK_COUNTER' = TASK_COUNTER + 1
    /\ Goto(t, "create336")
    /\ UNCHANGED <<USERS, TASKS, BALANCES, loc, pre, minted, overlaps, bus>>

\* line 336: USERS[user_id]["profile"]["created_tasks"] = ... + 1
CreateCountAgain(t) ==
    /\ pc[t] = "create336"
    /\ USERS' = [USERS EXCEPT ![loc[t].uid] = BumpCreated(@)]
    /\ Goto(t, "create338")
    /\ UNCHANGED <<TASKS, BALANCES, TASK_COUNTER, loc, pre, minted, overlaps, bus>>

\* lines 337-340: _send_telegram_message(user_id, ...)
CreateNotify(t) ==
    /\ pc[t] = "create338"
    /\ Notify(t, "create341")

\* lines 341-342: at = _augment_task_names(task); _publish("task", {"action": "created", "task": at})
CreatePublishTask(t) ==
    /\ pc[t] = "create341"
    /\ PublishCall(t, [loc[t] EXCEPT !.at = loc[t].task],
                   Event("task", "created", loc[t].task, 0, 0), "create343")

\* line 343: _publish("balance", {"user_id": user_id, "balance": b["balance"]})
CreatePublishBalance(t) ==
    /\ pc[t] = "create343"
    /\ PublishCall(t, loc[t], Event("balance", "", NoTask, loc[t].uid, BRef(t).balance), "create344")

\* line 344: return jsonify(at)
CreateRespond(t) ==
    /\ pc[t] = "create344"
    /\ Respond(t, 200)
    /\ UNCHANGED <<USERS, TASKS, BALANCES, TASK_COUNTER, pre, minted, overlaps, bus>>

\* -------------------------------------------------------------- take_task
\* With two threads a handler's task reference `t` always denotes the
\* dictionary stored under task_id: an entry of TASKS is replaced only by
\* create_task (line 327), and only while both threads are inside create_task.
TaskEnter(t, adm, op, next) ==
    /\ \E uid \in Users, task_id \in 1..MaxTasks : Enter(t, adm, op, uid, task_id, 0, 0, NoBody, next)
    /\ UNCHANGED <<USERS, TASKS, BALANCES, TASK_COUNTER, minted, bus>>

\* Variant of WithStatus: the write of the status also clears the price.
WithStatusRepriced(task, status) == [task EXCEPT !.status = status, !.price = 0]

\* t["status"] = status: the task with one key assigned (lines 364, 392, 419, 462).
WithStatus(task, status) == [task EXCEPT !.status = status]

\* t["status"] = status, then on to the next line
SetStatus(t, status, next) ==
    /\ TASKS' = [TASKS EXCEPT ![loc[t].task_id] = WithStatus(@, status)]
    /\ Goto(t, next)
    /\ UNCHANGED <<USERS, BALANCES, TASK_COUNTER, loc, pre, minted, overlaps, bus>>

\* at = _augment_task_names(t); _publish("task", {"action": "updated", "task": at})
PublishTask(t, next) ==
    LET at == TASKS[loc[t].task_id]
    IN  PublishCall(t, [loc[t] EXCEPT !.at = at], Event("task", "updated", at, 0, 0), next)

\* return jsonify(at)
RespondTask(t) ==
    /\ Respond(t, 200)
    /\ UNCHANGED <<USERS, TASKS, BALANCES, TASK_COUNTER, pre, minted, overlaps, bus>>

\* The status a take requires (line 362).
TakeAllowed(status) == status = "free"

TakeEnter(t, adm) == TaskEnter(t, adm, "take", "take356")

\* Variant of TakeOwn: no task counts as the caller's own.
TakeOwnNever(task, uid) == FALSE

\* line 360: t.get("customer_id") == uid
TakeOwn(task, uid) == task.customer_id = uid

\* lines 356-363: lookup, own-task check, status check
TakeCheck(t) ==
    /\ pc[t] = "take356"
    /\ IF loc[t].task_id \notin DOMAIN TASKS THEN Respond(t, 404)
       ELSE IF TakeOwn(TASKS[loc[t].task_id], loc[t].uid) THEN Respond(t, 403)
       ELSE IF ~TakeAllowed(TASKS[loc[t].task_id].status) THEN Respond(t, 400)
       ELSE Goto(t, "take364") /\ UNCHANGED loc
    /\ UNCHANGED <<USERS, TASKS, BALANCES, TASK_COUNTER, pre, minted, overlaps, bus>>

\* line 364: t["status"] = "taken"
TakeSetStatus(t) ==
    /\ pc[t] = "take364"
    /\ SetStatus(t, "taken", "take365")

\* line 365: t["performer_id"] = uid
TakeSetPerformer(t) ==
    /\ pc[t] = "take365"
    /\ TASKS' = [TASKS EXCEPT ![loc[t].task_id].performer_id = loc[t].uid]
    /\ Goto(t, "take367")
    /\ UNCHANGED <<USERS, BALANCES, TASK_COUNTER, loc, pre, minted, overlaps, bus>>

\* lines 366-369: _send_telegram_message(t["customer_id"], ...)
TakeNotify(t) ==
    /\ pc[t] = "take367"
    /\ Notify(t, "take370")

\* lines 370-371
TakePublish(t) ==
    /\ pc[t] = "take370"
    /\ PublishTask(t, "take372")

\* line 372
TakeRespond(t) ==
    /\ pc[t] = "take372"
    /\ RespondTask(t)

\* ---------------------------------------------------------- complete_task
CompleteEnter(t, adm) == TaskEnter(t, adm, "complete", "complete384")

\* Variant of CompleteOthers: anyone may complete.
CompleteOthersNever(task, uid) == FALSE

\* line 387: t.get("performer_id") != uid
CompleteOthers(task, uid) == task.performer_id # uid

\* lines 384-388: lookup, performer check
CompleteCheckPerformer(t) ==
    /\ pc[t] = "complete384"
    /\ IF loc[t].task_id \notin DOMAIN TASKS THEN Respond(t, 404)
       ELSE IF CompleteOthers(TASKS[loc[t].task_id], loc[t].uid) THEN Respond(t, 403)
       ELSE Goto(t, "complete389") /\ UNCHANGED loc
    /\ UNCHANGED <<USERS, TASKS, BALANCES, TASK_COUNTER, pre, minted, overlaps, bus>>

\* The status a complete requires (line 389).
CompleteAllowed(status) == status = "taken"

\* lines 389-390: status check
CompleteCheckStatus(t) ==
    /\ pc[t] = "complete389"
    /\ IF ~CompleteAllowed(TASKS[loc[t].task_id].status) THEN Respond(t, 400)
       ELSE Goto(t, "complete392") /\ UNCHANGED loc
    /\ UNCHANGED <<USERS, TASKS, BALANCES, TASK_COUNTER, pre, minted, overlaps, bus>>

\* lines 392-393: t["status"] = "completed"; t["result_text"] = ...
CompleteSetStatus(t) ==
    /\ pc[t] = "complete392"
    /\ SetStatus(t, "completed", "complete395")

\* lines 394-397: _send_telegram_message(t["customer_id"], ...)
CompleteNotify(t) ==
    /\ pc[t] = "complete395"
    /\ Notify(t, "complete398")

\* lines 398-399
CompletePublish(t) ==
    /\ pc[t] = "complete398"
    /\ PublishTask(t, "complete400")

\* line 400
CompleteRespond(t) ==
    /\ pc[t] = "complete400"
    /\ RespondTask(t)

\* ----------------------------------------------------------- confirm_task
ConfirmEnter(t, adm) == TaskEnter(t, adm, "confirm", "confirm412")

\* Variant of ConfirmAllowed: the check only excludes tasks not yet completed.
ConfirmAllowedClosed(status) == status \notin {"free", "taken", "confirmed"}

\* The status a confirm requires (line 417).
ConfirmAllowed(status) == status = "completed"

\* lines 412-418: lookup, customer check, status check
ConfirmCheck(t) ==
    /\ pc[t] = "confirm412"
    /\ IF loc[t].task_id \notin DOMAIN TASKS THEN Respond(t, 404)
       ELSE IF TASKS[loc[t].task_id].customer_id # loc[t].uid THEN Respond(t, 403)
       ELSE IF ~ConfirmAllowed(TASKS[loc[t].task_id].status) THEN Respond(t, 400)
       ELSE Goto(t, "confirm419") /\ UNCHANGED loc
    /\ UNCHANGED <<USERS, TASKS, BALANCES, TASK_COUNTER, pre, minted, overlaps, bus>>

\* line 419: t["status"] = "confirmed"
ConfirmSetStatus(t) ==
    /\ pc[t] = "confirm419"
    /\ SetStatus(t, "confirmed", "confirm420")

\* lines 420-422: performer_id = t.get("performer_id"); None -> 400 "No performer"
ConfirmGetPerformer(t) ==
    /\ pc[t] = "confirm420"
    /\ IF TASKS[loc[t].task_id].performer_id = None
          THEN Respond(t, 400)
          ELSE /\ loc' = [loc EXCEPT ![t].performer_id = TASKS[loc[t].task_id].performer_id]
               /\ Goto(t, "confirm424")
    /\ UNCHANGED <<USERS, TASKS, BALANCES, TASK_COUNTER, pre, minted, overlaps, bus>>

\* line 424: pb = BALANCES.setdefault(performer_id, ...)
ConfirmGetBalance(t) ==
    /\ pc[t] = "confirm424"
    /\ BSetDefault(t, loc[t].performer_id, "confirm425")
    /\ UNCHANGED <<USERS, TASKS, TASK_COUNTER, pre, minted, overlaps, bus>>

\* Variant of ConfirmAmount: the credit is applied twice.
ConfirmAmountTwice(task) == task.price + task.price

\* The amount credited to the performer (line 425).
ConfirmAmount(task) == task.price

\* line 425: pb["balance"] += t["price"]
ConfirmCredit(t) ==
    /\ pc[t] = "confirm425"
    /\ BWrite(t, [BRef(t) EXCEPT !.balance = @ + ConfirmAmount(TASKS[loc[t].task_id])], "confirm428")
    /\ UNCHANGED <<USERS, TASKS, TASK_COUNTER, pre, minted, overlaps, bus>>

\* lines 427-432: USERS.setdefault(performer_id, ...); pprof["finished_tasks"] += 1
ConfirmCount(t) ==
    /\ pc[t] = "confirm428"
    /\ LET us == SetDefault(USERS, loc[t].performer_id, NewProfile)
       IN  USERS' = [us EXCEPT ![loc[t].performer_id] = BumpFinished(@)]
    /\ Goto(t, "confirm433")
    /\ UNCHANGED <<TASKS, BALANCES, TASK_COUNTER, loc, pre, minted, overlaps, bus>>

\* line 433: pb["history"].append({"type": "transfer", ...})
ConfirmLog(t) ==
    /\ pc[t] = "confirm433"
    /\ BWrite(t, [BRef(t) EXCEPT !.history =
                     Append(@, Entry("transfer", TASKS[loc[t].task_id].price, loc[t].task_id))],
              "confirm434")
    /\ UNCHANGED <<USERS, TASKS, TASK_COUNTER, pre, minted, overlaps, bus>>

\* lines 434-435: if performer_id in USERS: finished_tasks += 1 (again)
ConfirmCountAgain(t) ==
    /\ pc[t] = "confirm434"
    /\ USERS' = IF loc[t].performer_id \in DOMAIN USERS
                   THEN [USERS EXCEPT ![loc[t].performer_id] = BumpFinished(@)]
                   ELSE USERS
    /\ Goto(t, "confirm437")
    /\ UNCHANGED <<TASKS, BALANCES, TASK_COUNTER, loc, pre, minted, overlaps, bus>>

\* lines 436-439: _send_telegram_message(performer_id, ...)
ConfirmNotify(t) ==
    /\ pc[t] = "confirm437"
    /\ Notify(t, "confirm440")

\* lines 440-441
ConfirmPublishTask(t) ==
    /\ pc[t] = "confirm440"
    /\ PublishTask(t, "confirm442")

\* line 442: _publish("balance", {"user_id": performer_id, "balance": pb["balance"]})
ConfirmPublishBalance(t) ==
    /\ pc[t] = "confirm442"
    /\ PublishCall(t, loc[t], Event("balance", "", NoTask, loc[t].performer_id, BRef(t).balance),
                   "confirm443")

\* line 443
ConfirmRespond(t) ==
    /\ pc[t] = "confirm443"
    /\ RespondTask(t)

\* ------------------------------------------------------------ reject_task
RejectEnter(t, adm) == TaskEnter(t, adm, "reject", "reject455")

\* Variant of RejectAllowed: a task nobody has taken can be rejected too.
RejectAllowedOpen(status) == status \in {"free", "taken", "completed"}

\* The statuses a reject requires (line 460).
RejectAllowed(status) == status \in {"taken", "completed"}

\* lines 455-461: lookup, customer check, status check
RejectCheck(t) ==
    /\ pc[t] = "reject455"
    /\ IF loc[t].task_id \notin DOMAIN TASKS THEN Respond(t, 404)
       ELSE IF TASKS[loc[t].task_id].customer_id # loc[t].uid THEN Respond(t, 403)
       ELSE IF ~RejectAllowed(TASKS[loc[t].task_id].status) THEN Respond(t, 400)
       ELSE Goto(t, "reject462") /\ UNCHANGED loc
    /\ UNCHANGED <<USERS, TASKS, BALANCES, TASK_COUNTER, pre, minted, overlaps, bus>>

\* line 462: t["status"] = "rejected"
RejectSetStatus(t) ==
    /\ pc[t] = "reject462"
    /\ SetStatus(t, "rejected", "reject463")

\* Variant of RejectPayee: the refund goes to the performer.
RejectPayeePerformer(uid, task) == task.performer_id

\* The account a reject credits: the caller's, who is the customer (line 463).
RejectPayee(uid, task) == uid

\* line 463: cb = BALANCES.setdefault(uid, ...)
RejectGetBalance(t) ==
    /\ pc[t] = "reject463"
    /\ BSetDefault(t, RejectPayee(loc[t].uid, TASKS[loc[t].task_id]), "reject464")
    /\ UNCHANGED <<USERS, TASKS, TASK_COUNTER, pre, minted, overlaps, bus>>

\* Variant of RejectAmount: the refund is forgotten.
RejectAmountNothing(task) == 0

\* The amount returned to the customer (line 464).
RejectAmount(task) == task.price

\* line 464: cb["balance"] += t["price"]
RejectCredit(t) ==
    /\ pc[t] = "reject464"
    /\ BWrite(t, [BRef(t) EXCEPT !.balance = @ + RejectAmount(TASKS[loc[t].task_id])], "reject465")
    /\ UNCHANGED <<USERS, TASKS, TASK_COUNTER, pre, minted, overlaps, bus>>

\* line 465: cb["history"].append({"type": "return", ...})
RejectLog(t) ==
    /\ pc[t] = "reject465"
    /\ BWrite(t, [BRef(t) EXCEPT !.history =
                     Append(@, Entry("return", TASKS[loc[t].task_id].price, loc[t].task_id))],
              "reject467")
    /\ UNCHANGED <<USERS, TASKS, TASK_COUNTER, pre, minted, overlaps, bus>>

\* lines 466-471: performer = t.get("performer_id"); if performer:
\* _send_telegram_message(performer, ...)
RejectNotify(t) ==
    /\ pc[t] = "reject467"
    /\ IF TASKS[loc[t].task_id].performer_id # None
          THEN Notify(t, "reject472")
          ELSE /\ Goto(t, "reject472")
               /\ UNCHANGED <<USERS, TASKS, BALANCES, TASK_COUNTER, loc, pre, minted, overlaps, bus>>

\* lines 472-473
RejectPublishTask(t) ==
    /\ pc[t] = "reject472"
    /\ PublishTask(t, "reject474")

\* line 474: _publish("balance", {"user_id": uid, "balance": cb["balance"]})
RejectPublishBalance(t) ==
    /\ pc[t] = "reject474"
    /\ PublishCall(t, loc[t], Event("balance", "", NoTask, loc[t].uid, BRef(t).balance), "reject475")

\* line 475
RejectRespond(t) ==
    /\ pc[t] = "reject475"
    /\ RespondTask(t)

\* ---------------------------------------------------------------- balance
\* The number of entries of a kind over all histories.
CountEntries(type) ==
    Total([u \in DOMAIN BALANCES |->
              Len(SelectSeq(BALANCES[u].history, LAMBDA e : e.type = type))])

GetBalanceEnter(t, adm) ==
    /\ \E uid \in Users : Enter(t, adm, "get_balance", uid, 0, 0, 0, NoBody, "balance487")
    /\ UNCHANGED <<USERS, TASKS, BALANCES, TASK_COUNTER, minted, bus>>

\* lines 487-488: b = BALANCES.setdefault(uid, ...); return
GetBalance(t) ==
    /\ pc[t] = "balance487"
    /\ BALANCES' = SetDefault(BALANCES, loc[t].uid, NewBalance(0))
    /\ pc' = [pc EXCEPT ![t] = "done"]
    /\ loc' = [loc EXCEPT ![t].b_uid = loc[t].uid, ![t].resp = 200]
    /\ UNCHANGED <<USERS, TASKS, TASK_COUNTER, pre, minted, overlaps, bus>>

\* lines 493-503: token, body, amount check
AddEnter(t, adm) ==
    /\ CanEnter(t, adm)
    /\ CountEntries("add") + CountEntries("withdraw_stub") < MaxLedgerRequests
    /\ \E uid \in Users, amount \in Amounts \cup {0} :
          Enter(t, adm, "add", uid, 0, 0, amount, NoBody, IF amount < 1 THEN "add503" ELSE "add504")
    /\ UNCHANGED <<USERS, TASKS, BALANCES, TASK_COUNTER, minted, bus>>

\* line 503: return 400 "Invalid amount"
AddInvalid(t) ==
    /\ pc[t] = "add503"
    /\ Respond(t, 400)
    /\ UNCHANGED <<USERS, TASKS, BALANCES, TASK_COUNTER, pre, minted, overlaps, bus>>

\* line 504: b = BALANCES.setdefault(uid, ...)
AddGetBalance(t) ==
    /\ pc[t] = "add504"
    /\ BSetDefault(t, loc[t].uid, "add505")
    /\ UNCHANGED <<USERS, TASKS, TASK_COUNTER, pre, minted, overlaps, bus>>

\* line 505: b["balance"] += amount
AddCredit(t) ==
    /\ pc[t] = "add505"
    /\ BWrite(t, [BRef(t) EXCEPT !.balance = @ + loc[t].amount], "add506")
    /\ minted' = minted + loc[t].amount
    /\ UNCHANGED <<USERS, TASKS, TASK_COUNTER, pre, overlaps, bus>>

\* lines 506-507: b["history"].append({"type": "add", ...}); return
AddLog(t) ==
    /\ pc[t] = "add506"
    /\ BWrite(t, [BRef(t) EXCEPT !.history = Append(@, Entry("add", loc[t].amount, 0))], "add507")
    /\ UNCHANGED <<USERS, TASKS, TASK_COUNTER, pre, minted, overlaps, bus>>

AddRespond(t) ==
    /\ pc[t] = "add507"
    /\ Respond(t, 200)
    /\ UNCHANGED <<USERS, TASKS, BALANCES, TASK_COUNTER, pre, minted, overlaps, bus>>

\* lines 512-520: token, body
WithdrawEnter(t, adm) ==
    /\ CanEnter(t, adm)
    /\ CountEntries("add") + CountEntries("withdraw_stub") < MaxLedgerRequests
    /\ \E uid \in Users, amount \in Amounts : Enter(t, adm, "withdraw", uid, 0, 0, amount, NoBody, "withdraw521")
    /\ UNCHANGED <<USERS, TASKS, BALANCES, TASK_COUNTER, minted, bus>>

\* line 521: b = BALANCES.setdefault(uid, ...)
WithdrawGetBalance(t) ==
    /\ pc[t] = "withdraw521"
    /\ BSetDefault(t, loc[t].uid, "withdraw522")
    /\ UNCHANGED <<USERS, TASKS, TASK_COUNTER, pre, minted, overlaps, bus>>

\* line 522: b["history"].append({"type": "withdraw_stub", ...})
WithdrawLog(t) ==
    /\ pc[t] = "withdraw522"
    /\ BWrite(t, [BRef(t) EXCEPT !.history = Append(@, Entry("withdraw_stub", loc[t].amount, 0))],
              "withdraw523")
    /\ UNCHANGED <<USERS, TASKS, TASK_COUNTER, pre, minted, overlaps, bus>>

\* line 523: return
WithdrawRespond(t) ==
    /\ pc[t] = "withdraw523"
    /\ Respond(t, 200)
    /\ UNCHANGED <<USERS, TASKS, BALANCES, TASK_COUNTER, pre, minted, overlaps, bus>>

\* ------------------------------------------------- get_profile, update_profile
\* A profile is modelled by its two counters, a missing key reading as 0 (the
\* handlers read them with .get(key, 0)); the other keys of a profile are
\* never read by a handler that changes a store.
GetProfileEnter(t, adm) ==
    /\ \E uid \in Users : Enter(t, adm, "get_profile", uid, 0, 0, 0, NoBody, "profile535")
    /\ UNCHANGED <<USERS, TASKS, BALANCES, TASK_COUNTER, minted, bus>>

\* lines 535-536: profile = USERS.setdefault(uid, {"profile": {...}})["profile"]; return
GetProfile(t) ==
    /\ pc[t] = "profile535"
    /\ USERS' = SetDefault(USERS, loc[t].uid, NewProfile)
    /\ Respond(t, 200)
    /\ UNCHANGED <<TASKS, BALANCES, TASK_COUNTER, pre, minted, overlaps, bus>>

\* The bodies of update_profile: the keys to assign, with their values.
ProfileBodies == {EmptyDict, [created_tasks |-> 0]}

\* profile.update(body): the keys of body are assigned, the others are kept.
Update(profile, body) ==
    [k \in DOMAIN profile |-> IF k \in DOMAIN body THEN body[k] ELSE profile[k]]

\* lines 541-548: token, body
UpdateProfileEnter(t, adm) ==
    /\ \E uid \in Users, body \in ProfileBodies :
          /\ Admitted(t, adm, uid)
          /\ overlaps' = IF adm = "overlap" THEN overlaps + 1 ELSE overlaps
          /\ pc' = [pc EXCEPT ![t] = "profile549"]
          /\ loc' = [loc EXCEPT ![t] = [NoLocals EXCEPT !.op = "update_profile", !.uid = uid,
                                                         !.body = body]]
          /\ pre' = [pre EXCEPT ![t] = Arrival]
    /\ UNCHANGED <<USERS, TASKS, BALANCES, TASK_COUNTER, minted, bus>>

\* lines 549-550: USERS.setdefault(uid, {"profile": {}})["profile"].update(body); return
UpdateProfile(t) ==
    /\ pc[t] = "profile549"
    /\ LET us == SetDefault(USERS, loc[t].uid, NewProfile)
       IN  USERS' = [us EXCEPT ![loc[t].uid] = Update(@, loc[t].body)]
    /\ Respond(t, 200)
    /\ UNCHANGED <<TASKS, BALANCES, TASK_COUNTER, pre, minted, overlaps, bus>>

\* ------------------------------------------------------- next-state relation
Call(t, adm) ==
    \/ AuthEnter(t, adm)
    \/ GetTaskEnter(t, adm)
    \/ CreateEnter(t, adm)
    \/ TakeEnter(t, adm)
    \/ CompleteEnter(t, adm)
    \/ ConfirmEnter(t, adm)
    \/ RejectEnter(t, adm)
    \/ GetBalanceEnter(t, adm)
    \/ AddEnter(t, adm)
    \/ WithdrawEnter(t, adm)

\* The steps inside the handlers, by handler.
AuthSteps(t) ==
    \/ AuthCheckUser(t)
    \/ AuthSetUser(t)
    \/ AuthCheckBalance(t)
    \/ AuthSetBalance(t)

CreateSteps(t) ==
    \/ CreateInvalid(t)
    \/ CreateGetBalance(t)
    \/ CreateCheckFunds(t)
    \/ CreateDebit(t)
    \/ CreateFreeze(t)
    \/ CreateBuild(t)
    \/ CreateStore(t)
    \/ CreateCount(t)
    \/ CreateAdvance(t)
    \/ CreateCountAgain(t)
    \/ CreateNotify(t)
    \/ CreatePublishTask(t)
    \/ CreatePublishBalance(t)
    \/ CreateRespond(t)

\* _send_telegram_message and _publish, called from the handlers.
SharedSteps(t) ==
    \/ SendTelegramMessage(t)
    \/ PublishSnapshot(t)

LifecycleSteps(t) ==
    \/ TakeCheck(t)
    \/ TakeSetStatus(t)
    \/ TakeSetPerformer(t)
    \/ TakeNotify(t)
    \/ TakePublish(t)
    \/ TakeRespond(t)
    \/ CompleteCheckPerformer(t)
    \/ CompleteCheckStatus(t)
    \/ CompleteSetStatus(t)
    \/ CompleteNotify(t)
    \/ CompletePublish(t)
    \/ CompleteRespond(t)
    \/ ConfirmCheck(t)
    \/ ConfirmSetStatus(t)
    \/ ConfirmGetPerformer(t)
    \/ ConfirmGetBalance(t)
    \/ ConfirmCredit(t)
    \/ ConfirmCount(t)
    \/ ConfirmLog(t)
    \/ ConfirmCountAgain(t)
    \/ ConfirmNotify(t)
    \/ ConfirmPublishTask(t)
    \/ ConfirmPublishBalance(t)
    \/ ConfirmRespond(t)
    \/ RejectCheck(t)
    \/ RejectSetStatus(t)
    \/ RejectGetBalance(t)
    \/ RejectCredit(t)
    \/ RejectLog(t)
    \/ RejectNotify(t)
    \/ RejectPublishTask(t)
    \/ RejectPublishBalance(t)
    \/ RejectRespond(t)

ReadSteps(t) ==
    \/ GetTask(t)
    \/ GetBalance(t)

LedgerSteps(t) ==
    \/ AddInvalid(t)
    \/ AddGetBalance(t)
    \/ AddCredit(t)
    \/ AddLog(t)
    \/ AddRespond(t)
    \/ WithdrawGetBalance(t)
    \/ WithdrawLog(t)
    \/ WithdrawRespond(t)

Step(t) ==
    \/ AuthSteps(t)
    \/ CreateSteps(t)
    \/ SharedSteps(t)
    \/ LifecycleSteps(t)
    \/ ReadSteps(t)
    \/ LedgerSteps(t)

Next == \E t \in Threads : (\E adm \in Admissions : Call(t, adm)) \/ Step(t) \/ Return(t)

\* Only the threads of SeqThreads ever leave "idle" here.
SeqNext == \E t \in SeqThreads : Call(t, "seq") \/ Step(t) \/ Return(t)

\* Requests may overlap (at most MaxOverlaps times).
Spec == Init /\ [][Next]_vars

\* Requests run one at a time.
SeqSpec == Init /\ [][SeqNext]_vars
\* No event stream is open in Spec and SeqSpec: SUBSCRIBERS stays empty and
\* _publish finds no queue to put the event on.

\* The event bus: event streams are opened, read and dropped while BusUsers
\* authenticate and create tasks, one request at a time.
Stream(sid, adm) ==
    \/ GenHello(sid)
    \/ GenGet(sid, adm)
    \/ GenPing(sid)
    \/ Disconnect(sid)

BusNext ==
    \/ \E t \in SeqThreads :
          \/ AuthEnter(t, "bus")
          \/ CreateEnter(t, "bus")
          \/ AuthSteps(t)
          \/ CreateSteps(t)
          \/ SharedSteps(t)
          \/ PublishPut(t)
          \/ Return(t)
    \/ SseEvents("bus")
    \/ \E sid \in StreamIds : Stream(sid, "bus")

BusSpec == Init /\ [][BusNext]_vars

\* Late subscribers: as BusSpec with at most MaxStreamTasks tasks, the event
\* streams being opened at any time, also between and after publications.
StreamNext ==
    \/ \E t \in SeqThreads :
          \/ AuthEnter(t, "stream")
          \/ CreateEnter(t, "stream")
          \/ AuthSteps(t)
          \/ CreateSteps(t)
          \/ SharedSteps(t)
          \/ PublishPut(t)
          \/ Return(t)
    \/ SseEvents("stream")
    \/ \E sid \in StreamIds : Stream(sid, "stream")

StreamSpec == Init /\ [][StreamNext]_vars

\* Listing: the stores are those left by auth_telegram of user 1 followed by
\* n creates of user 1 (each create counts the task twice, lines 332 and 336);
\* list_tasks requests then run one at a time.
ListInit ==
    /\ \E n \in 0..MaxListed :
          \E price \in [1..n -> ListPrices], category \in [1..n -> ListCategories] :
             /\ TASKS = [id \in 1..n |->
                            [id |-> id, price |-> price[id], category |-> category[id],
                             customer_id |-> 1, customer_rating |-> CustomerRating,
                             status |-> "free", performer_id |-> None]]
             /\ TASK_COUNTER = n + 1
             /\ USERS = 1 :> [NewProfile EXCEPT !.created_tasks = n + n]
             /\ BALANCES = 1 :> [balance |-> StartingGrant - Total(price),
                                 history |-> [id \in 1..n |-> Entry("freeze", price[id], id)]]
    /\ pc = [t \in Threads |-> "idle"]
    /\ loc = [t \in Threads |-> NoLocals]
    /\ pre = [t \in Threads |-> NoSnapshot]
    /\ minted = StartingGrant
    /\ overlaps = 0
    /\ SUBSCRIBERS = {}
    /\ SUB_ID_SEQ = 1
    /\ queue = EmptyDict
    /\ gen = EmptyDict
    /\ delivered = 0
    /\ published = 0

ListNext == \E t \in SeqThreads : ListTasksEnter(t, "seq") \/ ListTasks(t) \/ Return(t)

ListSpec == ListInit /\ [][ListNext]_vars

\* Every handler that reads or writes a store, one request at a time:
\* SeqNext together with list_tasks, get_profile and update_profile.
ProfileSteps(t) ==
    \/ GetProfileEnter(t, "seq")
    \/ GetProfile(t)
    \/ UpdateProfileEnter(t, "seq")
    \/ UpdateProfile(t)

FrameNext ==
    \E t \in SeqThreads :
        \/ Call(t, "seq")
        \/ Step(t)
        \/ Return(t)
        \/ ListTasksEnter(t, "frame")
        \/ ListTasks(t)
        \/ ProfileSteps(t)

FrameSpec == Init /\ [][FrameNext]_vars

\* ================================================================ claims
\* The sum of all balances.
SumBalances ==
    Total([u \in DOMAIN BALANCES |-> BALANCES[u].balance])

\* The sum of the prices of the tasks in a non-terminal status.
Frozen ==
    Total([id \in DOMAIN TASKS |->
              IF TASKS[id].status \in {"free", "taken", "completed"} THEN TASKS[id].price ELSE 0])

\* The number of transfer and return entries, over all histories, that refer to task id.
ReleaseEntries(id) ==
    Total([u \in DOMAIN BALANCES |->
              Len(SelectSeq(BALANCES[u].history,
                            LAMBDA e : e.type \in {"transfer", "return"} /\ e.task_id = id))])

LifecycleOps == {"take", "complete", "confirm", "reject"}

\* The status an operation requires of the task, and the status it produces (spec 4.1).
Requires(op, status) ==
    CASE op = "take" -> status = "free"
      [] op = "complete" -> status = "taken"
      [] op = "confirm" -> status = "completed"
      [] op = "reject" -> status \in {"taken", "completed"}
      [] OTHER -> FALSE

Produces(op) ==
    CASE op = "take" -> "taken"
      [] op = "complete" -> "completed"
      [] op = "confirm" -> "confirmed"
      [] op = "reject" -> "rejected"
      [] OTHER -> "none"

Failed(t) == pc[t] = "done" => loc[t].resp \in {400, 403}

\* The task a lifecycle request of thread t addresses, as it was when the request arrived.
Addressed(t) == pre[t].T[loc[t].task_id]

Addresses(t) == loc[t].op \in LifecycleOps /\ loc[t].task_id \in DOMAIN pre[t].T

\* C1: with requests run one at a time, whenever no request is in flight the
\* balances plus the prices of the tasks in status free, taken or completed add
\* up to the starting grants and deposits made so far (nothing at process start).
MoneyConserved == AllIdle => SumBalances + Frozen = minted

\* C1 witness: a confirmed task and a deposit, no request in flight.
MoneyConservedWitness ==
    /\ AllIdle
    /\ \E id \in DOMAIN TASKS : TASKS[id].status = "confirmed"
    /\ CountEntries("add") > 0

\* C2: with requests run one at a time, a request changes a task's status only
\* along the edge of its operation (take: free->taken, complete: taken->completed,
\* confirm: completed->confirmed, reject: taken|completed->rejected), and a take,
\* complete, confirm or reject that finds another status fails and leaves TASKS
\* and BALANCES (amounts and histories) as they were.
LegalTransitions ==
    \A t \in Threads : pc[t] # "idle" =>
        /\ \A id \in DOMAIN pre[t].T :
              TASKS[id].status # pre[t].T[id].status =>
                 /\ loc[t].op \in LifecycleOps
                 /\ id = loc[t].task_id
                 /\ Requires(loc[t].op, pre[t].T[id].status)
                 /\ TASKS[id].status = Produces(loc[t].op)
        /\ (Addresses(t) /\ ~Requires(loc[t].op, Addressed(t).status)) =>
              /\ TASKS = pre[t].T
              /\ BALANCES = pre[t].B
              /\ Failed(t)

\* C2 witness: the customer's reject of a task still free has returned 400.
LegalTransitionsWitness ==
    \E t \in Threads :
        /\ pc[t] = "done" /\ loc[t].op = "reject" /\ Addresses(t)
        /\ Addressed(t).status = "free" /\ Addressed(t).customer_id = loc[t].uid
        /\ loc[t].resp = 400

\* C3: two take requests in flight together, by two users who are not the
\* customer, on a task that was free when each arrived: exactly one returns 200,
\* the other 400, and the task is taken with the winner as performer.
TakeRaceOneWinner ==
    \A t1, t2 \in Threads :
        (/\ t1 # t2
         /\ pc[t1] = "done" /\ pc[t2] = "done"
         /\ loc[t1].op = "take" /\ loc[t2].op = "take"
         /\ loc[t1].task_id = loc[t2].task_id
         /\ loc[t1].uid # loc[t2].uid
         /\ Addresses(t1) /\ Addresses(t2)
         /\ Addressed(t1).status = "free" /\ Addressed(t2).status = "free"
         /\ Addressed(t1).customer_id \notin {loc[t1].uid, loc[t2].uid})
        => \E w \in {t1, t2} :
              /\ loc[w].resp = 200
              /\ \A l \in {t1, t2} \ {w} : loc[l].resp = 400
              /\ TASKS[loc[w].task_id].status = "taken"
              /\ TASKS[loc[w].task_id].performer_id = loc[w].uid

\* C4: with requests run one at a time, a confirm of a rejected task and a reject
\* of a confirmed task fail and leave every balance and history as it was, and
\* the histories hold at most one transfer or return entry per task.
ReleasedOnce ==
    /\ \A id \in DOMAIN TASKS : ReleaseEntries(id) <= 1
    /\ \A t \in Threads :
          (/\ pc[t] # "idle"
           /\ Addresses(t)
           /\ \/ loc[t].op = "confirm" /\ Addressed(t).status = "rejected"
              \/ loc[t].op = "reject" /\ Addressed(t).status = "confirmed")
          => BALANCES = pre[t].B /\ Failed(t)

\* C4 witness: the customer's confirm of a rejected task has returned 400.
ReleasedOnceWitness ==
    \E t \in Threads :
        /\ pc[t] = "done" /\ loc[t].op = "confirm" /\ Addresses(t)
        /\ Addressed(t).status = "rejected" /\ Addressed(t).customer_id = loc[t].uid
        /\ loc[t].resp = 400
        /\ ReleaseEntries(loc[t].task_id) = 1

\* C5: a confirm and a reject (or two of either) by the customer, in flight
\* together on a task that was completed when each arrived: exactly one returns
\* 200 and the price is credited once (one transfer or return entry).
ReleaseRaceOnce ==
    \A t1, t2 \in Threads :
        (/\ t1 # t2
         /\ pc[t1] = "done" /\ pc[t2] = "done"
         /\ loc[t1].op \in {"confirm", "reject"} /\ loc[t2].op \in {"confirm", "reject"}
         /\ loc[t1].task_id = loc[t2].task_id
         /\ Addresses(t1) /\ Addresses(t2)
         /\ Addressed(t1).status = "completed" /\ Addressed(t2).status = "completed"
         /\ Addressed(t1).customer_id = loc[t1].uid /\ Addressed(t2).customer_id = loc[t2].uid)
        => /\ (loc[t1].resp = 200) # (loc[t2].resp = 200)
           /\ ReleaseEntries(loc[t1].task_id) = 1
           /\ SumBalances + Frozen = minted

\* C6: every stored balance is >= 0, whatever the interleaving.
BalanceNonNegative == \A u \in DOMAIN BALANCES : BALANCES[u].balance >= 0

\* The signed amount of a ledger entry: freeze negative; return, transfer and
\* deposit ("add") positive; a withdraw_stub entry moves nothing.
Signed(e) ==
    CASE e.type = "freeze" -> 0 - e.amount
      [] e.type \in {"return", "transfer", "add"} -> e.amount
      [] OTHER -> 0

LedgerSum(h) ==
    LET n[i \in 0..Len(h)] == IF i = 0 THEN 0 ELSE Signed(h[i]) + n[i - 1]
    IN  n[Len(h)]

\* C7: with requests run one at a time, whenever no request is in flight each
\* balance equals the signed sum of its history.
BalanceIsLedgerSum ==
    AllIdle => \A u \in DOMAIN BALANCES : BALANCES[u].balance = LedgerSum(BALANCES[u].history)

\* The statements at which a handler reads TASKS or BALANCES.
ReadPoints == {"get287", "take356", "complete384", "complete389", "confirm412", "reject455",
               "balance487"}

\* Thread t has applied one half of a transition: the status but not the
\* performer (take), the debit but not the task (create), the terminal status
\* but not the credit (confirm, reject).
HalfApplied(t) ==
    \/ pc[t] = "take365" /\ TASKS[loc[t].task_id].performer_id = None
    \/ pc[t] \in {"create314", "create315", "create327"}
    \/ pc[t] \in {"confirm420", "confirm424", "confirm425"}
    \/ pc[t] \in {"reject463", "reject464"}

\* C8: no request reads the stores while another has half applied a transition,
\* and no get_task response shows a task taken with no performer.
TransitionsAtomic ==
    /\ \A t, s \in Threads : (t # s /\ pc[s] \in ReadPoints) => ~HalfApplied(t)
    /\ \A s \in Threads :
          (pc[s] = "done" /\ loc[s].op = "get_task" /\ loc[s].resp = 200)
          => ~(loc[s].at.status = "taken" /\ loc[s].at.performer_id = None)

\* C9: every stored task carries the id it is stored under, two creates that
\* returned 200 in flight together hold different ids, and once all requests in
\* flight have finished there are as many tasks as freeze entries, each task
\* with a freeze entry for its id in its customer's history.
TaskIdsUnique ==
    /\ \A id \in DOMAIN TASKS : TASKS[id].id = id
    /\ \A t1, t2 \in Threads :
          (/\ t1 # t2
           /\ pc[t1] = "done" /\ pc[t2] = "done"
           /\ loc[t1].op = "create" /\ loc[t2].op = "create"
           /\ loc[t1].resp = 200 /\ loc[t2].resp = 200)
          => loc[t1].at.id # loc[t2].at.id
    /\ (\A t \in Threads : pc[t] \in {"idle", "done"}) =>
          /\ CountEntries("freeze") = Cardinality(DOMAIN TASKS)
          /\ \A id \in DOMAIN TASKS :
                /\ TASKS[id].customer_id \in DOMAIN BALANCES
                /\ \E i \in DOMAIN BALANCES[TASKS[id].customer_id].history :
                      BALANCES[TASKS[id].customer_id].history[i]
                         = Entry("freeze", TASKS[id].price, id)

\* The record of user u in the snapshot of thread t (none: as setdefault creates it).
Before(t, u) == IF u \in DOMAIN pre[t].B THEN pre[t].B[u] ELSE NewBalance(0)

\* C10: with requests run one at a time, the customer's confirm of a completed
\* task returns 200 with the task confirmed, the performer's balance raised by
\* the price, one transfer entry for the task appended to the performer's
\* history, and the customer's balance and history as they were.
ConfirmEffect ==
    \A t \in Threads :
        (/\ pc[t] = "done" /\ loc[t].op = "confirm" /\ Addresses(t)
         /\ Addressed(t).status = "completed" /\ Addressed(t).customer_id = loc[t].uid)
        => LET task == Addressed(t)
               p == task.performer_id
           IN  /\ loc[t].resp = 200
               /\ TASKS[task.id] = [task EXCEPT !.status = "confirmed"]
               /\ p \in DOMAIN BALANCES
               /\ BALANCES[p].balance = Before(t, p).balance + task.price
               /\ BALANCES[p].history
                     = Append(Before(t, p).history, Entry("transfer", task.price, task.id))
               /\ loc[t].uid \in DOMAIN BALANCES
               /\ BALANCES[loc[t].uid] = Before(t, loc[t].uid)

\* C10 witness: a confirm by the customer of a completed task has returned.
ConfirmEffectWitness ==
    \E t \in Threads :
        /\ pc[t] = "done" /\ loc[t].op = "confirm" /\ Addresses(t)
        /\ Addressed(t).status = "completed" /\ Addressed(t).customer_id = loc[t].uid
        /\ loc[t].resp = 200

\* C11: with requests run one at a time, the customer's reject of a task in
\* status taken or completed returns 200 with the task rejected, the customer's
\* balance raised by the price (the amount the task's freeze entry took from
\* it), one return entry for the task appended to the customer's history, and
\* the performer's balance and history as they were.
RejectEffect ==
    \A t \in Threads :
        (/\ pc[t] = "done" /\ loc[t].op = "reject" /\ Addresses(t)
         /\ Addressed(t).status \in {"taken", "completed"}
         /\ Addressed(t).customer_id = loc[t].uid)
        => LET task == Addressed(t)
               c == task.customer_id
               p == task.performer_id
           IN  /\ loc[t].resp = 200
               /\ TASKS[task.id] = [task EXCEPT !.status = "rejected"]
               /\ c \in DOMAIN BALANCES
               /\ BALANCES[c].balance = Before(t, c).balance + task.price
               /\ BALANCES[c].history
                     = Append(Before(t, c).history, Entry("return", task.price, task.id))
               /\ SelectSeq(BALANCES[c].history,
                            LAMBDA e : e.type = "freeze" /\ e.task_id = task.id)
                     = <<Entry("freeze", task.price, task.id)>>
               /\ p \in DOMAIN BALANCES <=> p \in DOMAIN pre[t].B
               /\ p \in DOMAIN BALANCES => BALANCES[p] = pre[t].B[p]

\* C11 witness: a reject by the customer of a task taken and not yet completed
\* has returned.
RejectEffectWitness ==
    \E t \in Threads :
        /\ pc[t] = "done" /\ loc[t].op = "reject" /\ Addresses(t)
        /\ Addressed(t).status = "taken" /\ Addressed(t).customer_id = loc[t].uid
        /\ loc[t].resp = 200

\* The record of user u now, an account not yet opened counting as empty.
Account(u) == IF u \in DOMAIN BALANCES THEN BALANCES[u] ELSE NewBalance(0)

\* A create request as it arrived: invalid (a field missing or price < 1), or
\* valid with too small a balance.
CreateInvalidInput(t) == ~loc[t].title \/ loc[t].category = "" \/ loc[t].price < 1

CreateInsufficient(t) == ~CreateInvalidInput(t) /\ Before(t, loc[t].uid).balance < loc[t].price

\* C12: with requests run one at a time, a create with price < 1 or a missing
\* field, and a create for more than the customer's balance, return 400 and
\* leave TASKS, TASK_COUNTER, the customer's balance amount and history and the
\* created_tasks counters as they were; any other create returns 200, debits
\* the customer by the price and stores the task, free and without performer,
\* under the next id.
CreateOutcome ==
    \A t \in Threads :
        (pc[t] = "done" /\ loc[t].op = "create")
        => LET c == loc[t].uid
           IN  IF CreateInvalidInput(t) \/ CreateInsufficient(t)
                  THEN /\ loc[t].resp = 400
                       /\ TASKS = pre[t].T
                       /\ TASK_COUNTER = pre[t].N
                       /\ Account(c) = Before(t, c)
                       /\ USERS = pre[t].U
                  ELSE /\ loc[t].resp = 200
                       /\ Account(c).balance = Before(t, c).balance - loc[t].price
                       /\ DOMAIN TASKS = DOMAIN pre[t].T \cup {pre[t].N}
                       /\ pre[t].N \notin DOMAIN pre[t].T
                       /\ TASKS[pre[t].N].status = "free"
                       /\ TASKS[pre[t].N].performer_id = None
                       /\ TASKS[pre[t].N].price = loc[t].price
                       /\ TASKS[pre[t].N].customer_id = c
                       /\ \A id \in DOMAIN pre[t].T : TASKS[id] = pre[t].T[id]

\* C12 witness: a valid create for more than the customer's balance has returned.
CreateOutcomeWitness ==
    \E t \in Threads :
        /\ pc[t] = "done" /\ loc[t].op = "create"
        /\ CreateInsufficient(t)
        /\ loc[t].resp = 400

\* Thread t is inside _publish.
Publishing(t) == pc[t] \in {"publish42", "publish47"}

\* Thread t takes the step that snapshots the subscribers.
Snapshots(t) == pc[t] = "publish42" /\ pc'[t] # "publish42"

\* Thread t takes one round of the loop of _publish.
Puts(t) == pc[t] = "publish47" /\ loc'[t] # loc[t]

\* C13: no queue ever holds more than 100 items; a thread inside _publish can
\* always take its next step, whatever the subscribers do, and each round of
\* its loop shortens the list of queues left; the list is the set of the
\* subscribers registered when _publish is called; a round appends the event
\* to its queue when that holds fewer than 100 items, leaves it as it is when
\* it holds 100, and touches no other queue.
PublishIsolates ==
    /\ [](\A sid \in DOMAIN queue : Len(queue[sid]) <= QueueMaxSize)
    /\ [](\A t \in Threads : Publishing(t) => ENABLED (PublishSnapshot(t) \/ PublishPut(t)))
    /\ [][\A t \in Threads :
            /\ Snapshots(t) =>
                  {loc'[t].qs[i] : i \in 1..Len(loc'[t].qs)} = SUBSCRIBERS
            /\ Puts(t) =>
                  LET sid == Head(loc[t].qs)
                  IN  /\ Len(loc'[t].qs) = Len(loc[t].qs) - 1
                      /\ sid \in SUBSCRIBERS =>
                            queue'[sid] = IF Len(queue[sid]) < QueueMaxSize
                                             THEN Append(queue[sid], loc[t].payload)
                                             ELSE queue[sid]
                      /\ \A other \in DOMAIN queue \ {sid} :
                            other \in DOMAIN queue' /\ queue'[other] = queue[other]]_vars

\* C13 witness: a create has returned whose last event was dropped for a
\* subscriber holding 100 items and appended for another one.
PublishIsolatesWitness ==
    /\ \E t \in Threads : pc[t] = "done" /\ loc[t].op = "create" /\ loc[t].resp = 200
    /\ \E slow \in SUBSCRIBERS, fast \in SUBSCRIBERS :
          /\ Len(queue[slow]) = QueueMaxSize
          /\ queue[fast] # <<>>
          /\ queue[fast][Len(queue[fast])] \notin Range(queue[slow])

\* C14: a publish never comes to put an event on the full queue of a
\* subscriber whose connection has dropped: by then the subscriber has been
\* removed from SUBSCRIBERS, whether or not its generator had started.
DroppedSubscriberRemoved ==
    \A t \in Threads :
        pc[t] = "publish47" =>
           LET sid == Head(loc[t].qs)
           IN  ~(/\ sid \in SUBSCRIBERS
                 /\ gen[sid].conn = "dropped"
                 /\ QueueFull(queue[sid]))

\* The ids of the tasks of store T that the query arguments a ask for.
Wanted(T, a) ==
    {id \in DOMAIN T :
        /\ a.category = <<>> \/ T[id].category = a.category[1]
        /\ a.price_min = <<>> \/ a.price_min[1] <= T[id].price
        /\ a.price_max = <<>> \/ T[id].price <= a.price_max[1]}

\* C15: list_tasks returns, each once and as stored, exactly the tasks whose
\* price lies between price_min and price_max (both inclusive, each optional)
\* and whose category is the one asked for (if any); with sort=new the ids of
\* the items are strictly descending.
ListCorrect ==
    \A t \in Threads :
        (pc[t] = "done" /\ loc[t].op = "list")
        => LET items == loc[t].items
               T == pre[t].T
           IN  /\ loc[t].resp = 200
               /\ {items[i].id : i \in 1..Len(items)} = Wanted(T, loc[t].args)
               /\ Len(items) = Cardinality(Wanted(T, loc[t].args))
               /\ \A i \in 1..Len(items) : items[i] = T[items[i].id]
               /\ loc[t].args.sort = <<"new">> =>
                     \A i \in 1..(Len(items) - 1) : items[i].id > items[i + 1].id

\* C15 witness: a listing with price_min=10, price_max=50 and sort=new has
\* returned two or more tasks, one of price 10 and one of price 50, and has
\* left a task out.
ListCorrectWitness ==
    \E t \in Threads :
        /\ pc[t] = "done" /\ loc[t].op = "list"
        /\ loc[t].args.price_min = <<10>> /\ loc[t].args.price_max = <<50>>
        /\ loc[t].args.sort = <<"new">>
        /\ \E i, j \in 1..Len(loc[t].items) :
              loc[t].items[i].price = 10 /\ loc[t].items[j].price = 50
        /\ Len(loc[t].items) < Cardinality(DOMAIN pre[t].T)

\* C16: with requests run one at a time, whenever no request is in flight every
\* user's created_tasks equals the number of stored tasks whose customer the
\* user is (each successful create raising the counter by one).
CreatedCounted ==
    AllIdle =>
       \A u \in DOMAIN USERS :
          USERS[u].created_tasks = Cardinality({id \in DOMAIN TASKS : TASKS[id].customer_id = u})

\* C17: with requests run one at a time, whenever no request is in flight every
\* user's finished_tasks equals the number of confirmed tasks whose performer
\* the user is (each successful confirm raising the counter by one).
FinishedCounted ==
    AllIdle =>
       \A u \in DOMAIN USERS :
          USERS[u].finished_tasks
             = Cardinality({id \in DOMAIN TASKS :
                               TASKS[id].status = "confirmed" /\ TASKS[id].performer_id = u})

\* C18: a request never waits for its notification: no handler thread is
\* inside the Bot API call with its events still to publish and its response
\* still to send.
NotificationNotAwaited ==
    \A t \in Threads : ~(pc[t] = "urlopen161" /\ loc[t].resp = 0)

\* C19: a task's performer is unset or someone other than its customer; a take
\* of a task by its own customer returns 403 whatever the status and writes
\* nothing; a take past its checks is by another user; and a performer is
\* written by line 365 of a take only.
PerformerNotCustomer ==
    /\ [](\A id \in DOMAIN TASKS :
            TASKS[id].performer_id = None \/ TASKS[id].performer_id # TASKS[id].customer_id)
    /\ [](\A t \in Threads :
            pc[t] \in {"take364", "take365"} => TASKS[loc[t].task_id].customer_id # loc[t].uid)
    /\ [][/\ \A t \in Threads :
               (/\ pc[t] = "take356" /\ pc'[t] # "take356"
                /\ loc[t].task_id \in DOMAIN TASKS
                /\ TASKS[loc[t].task_id].customer_id = loc[t].uid)
               => pc'[t] = "done" /\ loc'[t].resp = 403 /\ TASKS' = TASKS
          /\ \A id \in DOMAIN TASKS' :
               IF id \in DOMAIN TASKS
                  THEN TASKS'[id].performer_id # TASKS[id].performer_id =>
                          \E t \in Threads :
                             /\ pc[t] = "take365" /\ pc'[t] # "take365"
                             /\ loc[t].task_id = id
                             /\ TASKS'[id].performer_id = loc[t].uid
                  ELSE TASKS'[id].performer_id = None]_vars

\* C19 witness: the customer's take of the own task, already taken by someone
\* else, has returned 403.
PerformerNotCustomerWitness ==
    \E t \in Threads :
        /\ pc[t] = "done" /\ loc[t].op = "take" /\ loc[t].resp = 403
        /\ loc[t].task_id \in DOMAIN TASKS
        /\ TASKS[loc[t].task_id].customer_id = loc[t].uid
        /\ TASKS[loc[t].task_id].status = "taken"
        /\ TASKS[loc[t].task_id].performer_id \notin {None, loc[t].uid}

\* C20: also with overlapping requests, every task in status completed or
\* confirmed has a performer, and a confirm that reads the performer (line 420)
\* finds one: the "No performer" branch of line 422 is never taken.
PerformerSet ==
    /\ \A id \in DOMAIN TASKS :
          TASKS[id].status \in {"completed", "confirmed"} => TASKS[id].performer_id # None
    /\ \A t \in Threads :
          pc[t] = "confirm420" => TASKS[loc[t].task_id].performer_id # None

\* C20 witness: a confirm is about to read the performer while another
\* request has overlapped.
PerformerSetWitness ==
    /\ overlaps > 0
    /\ \E t \in Threads : pc[t] = "confirm420"

\* C25: the starting grant is given at most once per user: an authentication
\* of a user who already has a balance record, whether from an earlier
\* authentication or from any other operation that creates the record,
\* leaves the user's balance and history as they were on arrival, so no
\* authentication raises an existing balance.
GrantOnce ==
    \A t \in Threads :
        (/\ pc[t] = "done"
         /\ loc[t].op = "auth"
         /\ loc[t].uid \in DOMAIN pre[t].B)
        => /\ loc[t].uid \in DOMAIN BALANCES
           /\ BALANCES[loc[t].uid] = pre[t].B[loc[t].uid]

\* A repeated authentication of a user whose record no longer equals the
\* fresh grant has answered 200.
GrantOnceWitness ==
    \E t \in Threads :
        /\ pc[t] = "done"
        /\ loc[t].op = "auth"
        /\ loc[t].resp = 200
        /\ loc[t].uid \in DOMAIN pre[t].B
        /\ pre[t].B[loc[t].uid] # NewBalance(StartingGrant)
        /\ pre[t].B[loc[t].uid].history # <<>>

\* The amounts of the freeze entries recorded for task id, over all histories.
FrozenFor(id) ==
    {e.amount : e \in UNION {{x \in Range(BALANCES[u].history) :
                                  x.type = "freeze" /\ x.task_id = id} : u \in DOMAIN BALANCES}}

\* Every stored task keeps its price, id and customer in the step taken.
TaskKept ==
    \A id \in DOMAIN TASKS :
        /\ id \in DOMAIN TASKS'
        /\ TASKS'[id].price = TASKS[id].price
        /\ TASKS'[id].id = TASKS[id].id
        /\ TASKS'[id].customer_id = TASKS[id].customer_id

\* Every transfer or return entry carries the amount frozen for its task, and
\* a confirm or reject that has answered 200 has raised the payee's balance
\* by that amount.
ReleaseIsFrozen ==
    /\ \A u \in DOMAIN BALANCES :
          \A e \in Range(BALANCES[u].history) :
              e.type \in {"transfer", "return"} => FrozenFor(e.task_id) = {e.amount}
    /\ \A t \in Threads :
          (pc[t] = "done" /\ loc[t].op \in {"confirm", "reject"} /\ loc[t].resp = 200)
          => LET task == TASKS[loc[t].task_id]
                 payee == IF loc[t].op = "confirm" THEN task.performer_id ELSE task.customer_id
             IN  FrozenFor(task.id) = {Account(payee).balance - Before(t, payee).balance}

\* C24: a task's price, id and customer never change after creation: every
\* step of every handler (take, complete, confirm, reject, add balance,
\* withdraw, profile update, list, get, with requests run one at a time)
\* leaves them as stored, the stored price is the amount frozen at create,
\* and the amount credited on confirm or reject equals the amount frozen.
TaskFrame ==
    /\ [](\A id \in DOMAIN TASKS : TASKS[id].id = id /\ FrozenFor(id) = {TASKS[id].price})
    /\ []ReleaseIsFrozen
    /\ [][TaskKept]_vars

\* A task has been confirmed and paid after a profile update and a listing
\* took place while it was stored.
TaskFrameWitness ==
    \E t \in Threads :
        /\ pc[t] = "done"
        /\ loc[t].op \in {"update_profile", "list"}
        /\ \E id \in DOMAIN TASKS :
              /\ TASKS[id].status \in {"confirmed", "rejected"}
              /\ \E u \in DOMAIN BALANCES :
                    \E e \in Range(BALANCES[u].history) :
                        e.type \in {"transfer", "return"} /\ e.task_id = id

\* The user whose balance the operation of thread t changes.
Payee(t) ==
    IF loc[t].op = "confirm" THEN TASKS[loc[t].task_id].performer_id ELSE loc[t].uid

\* The request of thread t has published a balance event for user u carrying
\* balance b, or a task event for task id.
PublishedBalance(t, u, b) ==
    \E i \in 1..Len(loc[t].events) :
        LET e == loc[t].events[i]
        IN  e.event = "balance" /\ e.user_id = u /\ e.balance = b

PublishedTask(t, id) ==
    \E i \in 1..Len(loc[t].events) :
        LET e == loc[t].events[i] IN e.event = "task" /\ e.task.id = id

\* The operations of ops that have answered 200 have published their events.
EventsPublishedBy(ops) ==
    \A t \in Threads :
        (pc[t] = "done" /\ loc[t].resp = 200 /\ loc[t].op \in ops)
        => /\ loc[t].op \in {"create", "confirm", "reject", "add"}
              => PublishedBalance(t, Payee(t), Account(Payee(t)).balance)
           /\ loc[t].op = "create" => PublishedTask(t, pre[t].N)
           /\ loc[t].op \in LifecycleOps => PublishedTask(t, loc[t].task_id)

\* C22: with requests run one at a time, a create, confirm, reject or add
\* balance that has answered 200 has published a balance event carrying the
\* affected user's id and that user's balance as the operation left it, a
\* create, take, complete, confirm or reject that has answered 200 has
\* published a task event for its task, and a request that has answered with
\* an error has published nothing.
EventsPublished ==
    /\ EventsPublishedBy({"create", "add"} \cup LifecycleOps)
    /\ \A t \in Threads :
          (pc[t] = "done" /\ loc[t].resp # 200) => loc[t].events = <<>>

\* C23: under any interleaving of overlapping requests, every task event
\* published by a take, complete, confirm or reject carries a snapshot of the
\* task whose status is the one that transition produced; the events of one
\* task are then published in the order of its transitions, since a later
\* transition's status never shows in an earlier transition's event.
TaskEventsConsistent ==
    \A t \in Threads :
        loc[t].op \in LifecycleOps
        => \A i \in 1..Len(loc[t].events) :
              LET e == loc[t].events[i]
              IN  e.event = "task" => e.task.status = Produces(loc[t].op)

\* The events subscriber sid has been handed: those written to its client
\* (the hello left out) followed by those waiting in its queue.
Received(sid) ==
    SelectSeq(gen[sid].out, LAMBDA e : e # Hello)
       \o (IF sid \in DOMAIN queue THEN queue[sid] ELSE <<>>)

\* C21: delivery is at-most-once with no replay: no published event occurs
\* twice among the events written to a subscriber and those waiting in its
\* queue, every such event was published after the subscriber registered,
\* and the first item a stream writes is hello, every later one being a task
\* or balance event taken from the queue.
AtMostOnce ==
    \A sid \in DOMAIN gen :
        LET got == Received(sid)
            out == gen[sid].out
        IN  /\ \A i, j \in 1..Len(got) : got[i].no = got[j].no => i = j
            /\ \A i \in 1..Len(got) : got[i].no > gen[sid].first
            /\ gen[sid].at = "created" => out = <<>>
            /\ out # <<>> => out[1] = Hello
            /\ \A i \in 2..Len(out) : out[i].event \in {"task", "balance"}

\* A subscriber that registered after the first publication has been written
\* hello and then the second event, and nothing else.
AtMostOnceWitness ==
    \E sid \in DOMAIN gen :
        /\ gen[sid].first = 1
        /\ Len(gen[sid].out) = 2
        /\ gen[sid].out[2].no = 2
        /\ sid \in DOMAIN queue
        /\ queue[sid] = <<>>
        /\ published = 2

====
